---- MODULE Spec2Model ----
(***************************************************************************)
(* The gitstatus daemon: the request loop (GitStatus), the handling of one *)
(* request (ProcessRequest) with its scope guards, the background tag-name *)
(* task, and the directory lister (ListDir) used by the working-tree scan. *)
(*                                                                         *)
(* The request thread is modelled statement by statement (pc).  Leaving    *)
(* ProcessRequest, by return or by exception, runs the pending scope       *)
(* guards and destructors in reverse order of declaration (guards).        *)
(***************************************************************************)
EXTENDS Integers, Sequences, FiniteSets, TLC

\* ------------------------------------------------------------------ bounds

\* Number of input records the model lets the reader consume.
MaxRequests == 2
\* Most entries of a directory handed to ListDir on its own.
MaxDirLen == 3
\* Most calls of ListDir a caller makes with the same arena and entries.
MaxListCalls == 2
\* ------------------------------------------------------------- value sets

NoOid == "null"

\* git_repository_workdir: NULL for a bare repository, else an absolute path.
NoPath == << >>

\* Values of opts.dirty_max_index_size the daemon may have been started with.
DirtyMaxValues == {0, 1}

NUL == "NUL"
Dirent(type, name) == [d_type |-> type, d_name |-> name]
DotEnt == Dirent("DT_DIR", <<".">>)
DotDotEnt == Dirent("DT_DIR", <<".", ".">>)

\* The repositories on disk a request's dir may lie in: what the library
\* reports for each (HEAD, its target, the working directory, the upstream,
\* the tag at HEAD, the index and its differences) and the entries of the
\* directory the working-tree scan lists.
Repos ==
  { [ name |-> "nohead", head |-> FALSE, head_target |-> NoOid,
      workdir |-> <<"/", "r", "/">>, upstream |-> FALSE, tag |-> "",
      index_size |-> 0, staged |-> 0, unstaged |-> 0,
      dir |-> <<DotEnt, DotDotEnt>> ],
    [ name |-> "bare", head |-> TRUE, head_target |-> "c1",
      workdir |-> NoPath, upstream |-> FALSE, tag |-> "",
      index_size |-> 0, staged |-> 0, unstaged |-> 0,
      dir |-> <<DotEnt, DotDotEnt>> ],
    [ name |-> "fresh", head |-> TRUE, head_target |-> NoOid,
      workdir |-> <<"/", "r", "/">>, upstream |-> FALSE, tag |-> "",
      index_size |-> 0, staged |-> 0, unstaged |-> 0,
      dir |-> <<DotEnt, DotDotEnt>> ],
    [ name |-> "work", head |-> TRUE, head_target |-> "c1",
      workdir |-> <<"/">>, upstream |-> TRUE, tag |-> "v1.0",
      index_size |-> 1, staged |-> 1, unstaged |-> 1,
      dir |-> <<DotEnt, DotDotEnt, Dirent("DT_REG", <<"a">>),
                Dirent("DT_REG", <<".", "a">>)>> ],
    [ name |-> "big", head |-> TRUE, head_target |-> "c1",
      workdir |-> <<"/", "r", "/">>, upstream |-> FALSE, tag |-> "",
      index_size |-> 2, staged |-> 0, unstaged |-> 1,
      dir |-> <<DotEnt, DotDotEnt, Dirent("DT_REG", <<"a">>)>> ] }

\* req.dir: a path inside one of the repositories, or inside none.
NoRepo == "none"
Dirs == {r.name : r \in Repos} \cup {NoRepo}
RepoAt(dir) == CHOOSE r \in Repos : r.name = dir

\* A response field: the value, tagged with the expression that computed it.
Field(name, val) == <<name, val>>
FieldName(f) == f[1]
FieldVal(f) == f[2]

\* §6 of the specification: the field order of a successful record.
FieldOrder ==
  << "id", "is_repo", "workdir", "commit", "local_branch", "upstream_branch",
     "remote_url", "repo_state", "has_staged", "has_unstaged", "has_untracked",
     "ahead", "behind", "num_stashes", "tag" >>

Last(s) == s[Len(s)]
Front(s) == SubSeq(s, 1, Len(s) - 1)

\* ------------------------------------------------------------------ state

VARIABLES
  pc,          \* position of the request thread
  opts,        \* Options: dirty_max_index_size; linux: the build's ListDir
  nread,       \* input records consumed by reader.ReadRequest so far
  req,         \* the Request being processed
  parsed,      \* ids of the requests ReadRequest returned, in order
  out,         \* records written to the output, in order
  log,         \* log lines, in order
  strm,        \* ResponseWriter: the buffered fields
  done,        \* ResponseWriter: Dump was called
  guards,      \* pending scope guards / destructors, innermost last
  exc,         \* an Exception is propagating out of ProcessRequest
  head,        \* git_reference* head: "null", "held" or "freed"
  head_target, \* const git_oid* head_target
  upstream,    \* git_reference* upstream: "null", "held" or "freed"
  acquired,    \* references handed out by Head / Upstream in this request
  freed,       \* git_reference_free calls in this request, per reference
  tagTask,     \* the tag task on the pool: "none", "running", "value", "error"
  tagValid,    \* tag.valid()
  tagWaits,    \* tag.wait() calls in this request
  tagGets,     \* tag.get() calls in this request
  tagResult,   \* the tag name the finished task holds
  indexSize,   \* entries of the index GetIndexStats looked at; -1: not called
  stats,       \* IndexStats stats
  scanErr,     \* I/O failures the working-tree scan of this request met
  counted,     \* the ranges CountRange was called with in this request
  ld_pc,       \* position inside ListDir
  fds,         \* open file descriptors of the process
  arena,       \* std::string& arena
  entries,     \* std::vector<size_t>& entries
  dirleft,     \* directory entries the kernel has not returned yet
  ld_ok,       \* ListDir's return value
  ld_dir,      \* the entries of the directory ListDir was called on
  ld_err,      \* the system calls of this ListDir call that failed
  ld_calls,    \* ListDir calls made on arena and entries by the caller
  ld_first     \* <<arena, entries>> as the previous call left them

reqvars == <<nread, req, parsed>>
respvars == <<strm, done>>
refvars == <<head, head_target, upstream, acquired, freed>>
tagvars == <<tagTask, tagValid, tagWaits, tagGets, tagResult>>
statvars == <<indexSize, stats, scanErr, counted>>
ldhist == <<ld_dir, ld_calls, ld_first>>
ldvars == <<ld_pc, fds, arena, entries, dirleft, ld_ok, ld_err, ldhist>>
vars == <<pc, opts, out, log, guards, exc, reqvars, respvars, refvars,
          tagvars, statvars, ldvars>>

NoRefs == [r \in {"head", "upstream"} |-> 0]
NoStats == [has_staged |-> 0, has_unstaged |-> 0, has_untracked |-> 0]

\* ------------------------------------------------- collaborators' values

\* LocalBranchName(head), RemoteBranchName, RemoteUrl, RepoState, NumStashes.
BranchNames == {"master"}
RemoteBranchNames == {"origin/master"}
RemoteUrls == {"git@host:r.git"}
RepoStates == {""}
StashCounts == {0}

\* CountRange(repo, range): commits in a revision range; upstream..HEAD are
\* the commits HEAD is ahead by, HEAD..upstream those it is behind by.
CountRange(range) == IF range = <<"upstream", "..", "HEAD">> THEN 2
                     ELSE IF range = <<"HEAD", "..", "upstream">> THEN 1
                     ELSE 0

\* git_oid_tostr_s
OidToStr(oid) == oid

\* ------------------------------------------------------- ResponseWriter

\* ResponseWriter(req.id): the record starts as id, is_repo = "1".
RespNew(id) == << Field("id", id), Field("is_repo", "1") >>

\* resp.Print(val): buffers one more field, writes nothing.
RespPrint(val) == strm' = Append(strm, val)

\* resp.Dump(): writes the buffered record.
RespDump == /\ out' = Append(out, strm)
            /\ done' = TRUE

\* ~ResponseWriter(): a writer that was never dumped reports "not a repo".
RespDtor == /\ out' = IF done THEN out
                      ELSE Append(out, << strm[1], Field("is_repo", "0") >>)
            /\ UNCHANGED <<strm, done>>

\* --------------------------------------------------------------- Init

Init ==
  /\ pc = "read"
  /\ opts \in [dirty_max_index_size : DirtyMaxValues, linux : BOOLEAN]
  /\ nread = 0
  /\ req = [id |-> 0, dir |-> NoRepo]
  /\ parsed = << >>
  /\ out = << >>
  /\ log = << >>
  /\ strm = << >>
  /\ done = FALSE
  /\ guards = << >>
  /\ exc = FALSE
  /\ head = "null"
  /\ head_target = NoOid
  /\ upstream = "null"
  /\ acquired = NoRefs
  /\ freed = NoRefs
  /\ tagTask = "none"
  /\ tagValid = FALSE
  /\ tagWaits = 0
  /\ tagGets = 0
  /\ tagResult = ""
  /\ indexSize = -1
  /\ stats = NoStats
  /\ scanErr = {}
  /\ counted = << >>
  /\ ld_pc = "idle"
  /\ fds = 0
  /\ arena = << >>
  /\ entries = << >>
  /\ dirleft = << >>
  /\ ld_ok = FALSE
  /\ ld_dir = << >>
  /\ ld_err = {}
  /\ ld_calls = 0
  /\ ld_first = << >>

\* ------------------------------------------------ leaving ProcessRequest

\* `return`: the scope guards run, no exception is in flight.
Return == /\ pc' = "unwind"
          /\ exc' = FALSE

\* A callee throws Exception: the scope guards run while it propagates.
Throw == /\ pc' = "unwind"
         /\ exc' = TRUE

\* NextStmt with resp.Dump moved in front of resp.Print(tag.get()).
NextStmtDumpFirst(p) ==
  CASE p = "workdir"  -> "commit"
    [] p = "commit"   -> "branch"
    [] p = "branch"   -> "upstream"
    [] p = "upstream" -> "upname"
    [] p = "upname"   -> "url"
    [] p = "url"      -> "state"
    [] p = "state"    -> "stats"
    [] p = "stats"    -> "pstats"
    [] p = "pstats"   -> "ahead"
    [] p = "ahead"    -> "behind"
    [] p = "behind"   -> "stashes"
    [] p = "stashes"  -> "dump"
    [] p = "dump"     -> "tagget"
    [] p = "tagget"   -> "end"

\* NextStmt with tag.get() moved before GetIndexStats.
NextStmtTagFirst(p) ==
  CASE p = "workdir"  -> "commit"
    [] p = "commit"   -> "branch"
    [] p = "branch"   -> "upstream"
    [] p = "upstream" -> "upname"
    [] p = "upname"   -> "url"
    [] p = "url"      -> "state"
    [] p = "state"    -> "tagget"
    [] p = "tagget"   -> "stats"
    [] p = "stats"    -> "pstats"
    [] p = "pstats"   -> "ahead"
    [] p = "ahead"    -> "behind"
    [] p = "behind"   -> "stashes"
    [] p = "stashes"  -> "dump"
    [] p = "dump"     -> "end"

\* The order of the statements of ProcessRequest after its early returns;
\* "end" is the closing brace of the function.
NextStmt(p) ==
  CASE p = "workdir"  -> "commit"
    [] p = "commit"   -> "branch"
    [] p = "branch"   -> "upstream"
    [] p = "upstream" -> "upname"
    [] p = "upname"   -> "url"
    [] p = "url"      -> "state"
    [] p = "state"    -> "stats"
    [] p = "stats"    -> "pstats"
    [] p = "pstats"   -> "ahead"
    [] p = "ahead"    -> "behind"
    [] p = "behind"   -> "stashes"
    [] p = "stashes"  -> "tagget"
    [] p = "tagget"   -> "dump"
    [] p = "dump"     -> "end"

\* Control passes to statement p.
Goto(p) == IF p = "end" THEN Return ELSE pc' = p /\ exc' = FALSE

\* --------------------------------------------------------- request loop

\* reader.ReadRequest() returns a request; "Processing request" is logged.
ReadRequestOk ==
  /\ pc = "read"
  /\ nread < MaxRequests
  /\ nread' = nread + 1
  /\ \E d \in Dirs : req' = [id |-> nread + 1, dir |-> d]
  /\ parsed' = Append(parsed, nread + 1)
  /\ log' = Append(log, <<"INFO", "Processing request", nread + 1>>)
  /\ pc' = "open"
  /\ UNCHANGED <<opts, out, guards, exc, respvars, refvars, tagvars,
                 statvars, ldvars>>

\* RequestReader::ReadRequest on a malformed record: the parse error is
\* logged before the Exception is thrown.
ReaderLogsParseError(k) == log' = Append(log, <<"ERROR", "parse error", k>>)

\* ReadRequestParseError with the malformed request handed on to
\* ProcessRequest instead of being dropped.
ReadRequestParseErrorProcessed ==
  /\ pc = "read"
  /\ nread < MaxRequests
  /\ nread' = nread + 1
  /\ ReaderLogsParseError(nread + 1)
  /\ pc' = "open"
  /\ UNCHANGED <<opts, req, parsed, out, guards, exc, respvars, refvars,
                 tagvars, statvars, ldvars>>

\* reader.ReadRequest() throws on a malformed record; the outer handler of the
\* loop swallows the Exception and the loop goes round.
ReadRequestParseError ==
  /\ pc = "read"
  /\ nread < MaxRequests
  /\ nread' = nread + 1
  /\ ReaderLogsParseError(nread + 1)
  /\ pc' = "read"
  /\ UNCHANGED <<opts, req, parsed, out, guards, exc, respvars, refvars,
                 tagvars, statvars, ldvars>>

\* reader.ReadRequest() sees the parent die (lock-fd) and ends the process.
ReadRequestParentDeath ==
  /\ pc = "read"
  /\ pc' = "exited"
  /\ UNCHANGED <<opts, out, log, guards, exc, reqvars, respvars, refvars,
                 tagvars, statvars, ldvars>>

\* ReturnToLoop with a handler that also writes an error record itself.
ReturnToLoopEmits ==
  /\ pc = "unwind"
  /\ guards = << >>
  /\ log' = Append(log, IF exc THEN <<"ERROR", "Error processing request", req.id>>
                        ELSE <<"INFO", "Successfully processed request", req.id>>)
  /\ out' = IF exc THEN Append(out, << Field("id", req.id), Field("is_repo", "0") >>)
            ELSE out
  /\ pc' = "read"
  /\ exc' = FALSE
  /\ strm' = << >>
  /\ done' = FALSE
  /\ head' = "null"
  /\ head_target' = NoOid
  /\ upstream' = "null"
  /\ acquired' = NoRefs
  /\ freed' = NoRefs
  /\ tagValid' = FALSE
  /\ tagWaits' = 0
  /\ tagGets' = 0
  /\ IF tagTask = "running"
     THEN UNCHANGED <<tagTask, tagResult>>
     ELSE tagTask' = "none" /\ tagResult' = ""
  /\ indexSize' = -1
  /\ stats' = NoStats
  /\ scanErr' = {}
  /\ counted' = << >>
  /\ UNCHANGED <<opts, guards, reqvars, ldvars>>

\* ProcessRequest returned or threw: the loop logs and reads again.
ReturnToLoop ==
  /\ pc = "unwind"
  /\ guards = << >>
  /\ log' = Append(log, IF exc THEN <<"ERROR", "Error processing request", req.id>>
                        ELSE <<"INFO", "Successfully processed request", req.id>>)
  /\ pc' = "read"
  /\ exc' = FALSE
  /\ strm' = << >>
  /\ done' = FALSE
  /\ head' = "null"
  /\ head_target' = NoOid
  /\ upstream' = "null"
  /\ acquired' = NoRefs
  /\ freed' = NoRefs
  /\ tagValid' = FALSE
  /\ tagWaits' = 0
  /\ tagGets' = 0
  /\ IF tagTask = "running"
     THEN UNCHANGED <<tagTask, tagResult>>
     ELSE tagTask' = "none" /\ tagResult' = ""
  /\ indexSize' = -1
  /\ stats' = NoStats
  /\ scanErr' = {}
  /\ counted' = << >>
  /\ UNCHANGED <<opts, out, guards, reqvars, ldvars>>

\* -------------------------------------------------------- ProcessRequest

\* workdir with its trailing slash stripped, unless it is the root.
\* StripSlash without the test that spares the root directory.
StripSlashAlways(w) == IF w[Len(w)] = "/" THEN Front(w) ELSE w

StripSlash(w) == IF Len(w) > 1 /\ w[Len(w)] = "/" THEN Front(w) ELSE w

\* Timer, its guard, ResponseWriter resp(req.id), cache.Open(req.dir).
OpenStep ==
  /\ pc = "open"
  /\ guards' = <<"timer", "resp">>
  /\ strm' = RespNew(req.id)
  /\ done' = FALSE
  /\ \/ req.dir # NoRepo /\ pc' = "head" /\ exc' = FALSE
     \/ req.dir = NoRepo /\ Return       \* if (!repo) return;
     \/ Throw
  /\ UNCHANGED <<opts, out, log, reqvars, refvars, tagvars, statvars, ldvars>>

\* git_reference* head = Head(repo->repo()); its guard.
HeadStep ==
  /\ pc = "head"
  /\ \/ /\ RepoAt(req.dir).head
        /\ head' = "held"
        /\ acquired' = [acquired EXCEPT !["head"] = @ + 1]
        /\ guards' = Append(guards, "head")
        /\ pc' = "tag"
        /\ exc' = FALSE
     \/ /\ ~RepoAt(req.dir).head
        /\ Return                        \* if (!head) return;
        /\ UNCHANGED <<head, acquired, guards>>
     \/ /\ Throw
        /\ UNCHANGED <<head, acquired, guards>>
  /\ UNCHANGED <<opts, out, log, reqvars, respvars, head_target, upstream,
                 freed, tagvars, statvars, ldvars>>

\* TagStep without the ON_SCOPE_EXIT block that waits for the tag.
TagStepNoGuard ==
  /\ pc = "tag"
  /\ head_target' = RepoAt(req.dir).head_target
  /\ \/ /\ tagTask' = "running"
        /\ tagValid' = TRUE
        /\ pc' = "workdir"
        /\ exc' = FALSE
        /\ UNCHANGED guards
     \/ /\ Throw
        /\ UNCHANGED <<tagTask, tagValid, guards>>
  /\ UNCHANGED <<opts, out, log, reqvars, respvars, head, upstream, acquired,
                 freed, tagWaits, tagGets, tagResult, statvars, ldvars>>

\* head_target; tag = repo->GetTagName(head_target); the guard that waits.
TagStep ==
  /\ pc = "tag"
  /\ head_target' = RepoAt(req.dir).head_target
  /\ \/ /\ tagTask' = "running"
        /\ tagValid' = TRUE
        /\ guards' = Append(guards, "tag")
        /\ pc' = "workdir"
        /\ exc' = FALSE
     \/ /\ Throw
        /\ UNCHANGED <<tagTask, tagValid, guards>>
  /\ UNCHANGED <<opts, out, log, reqvars, respvars, head, upstream, acquired,
                 freed, tagWaits, tagGets, tagResult, statvars, ldvars>>

\* The tag task on the thread pool finishes, with a name or an exception.
TagTaskRun ==
  /\ tagTask = "running"
  /\ \/ tagTask' = "value" /\ tagResult' = RepoAt(req.dir).tag
     \/ tagTask' = "error" /\ tagResult' = ""
  /\ UNCHANGED <<pc, opts, out, log, guards, exc, reqvars, respvars, refvars,
                 tagValid, tagWaits, tagGets, statvars, ldvars>>

\* WorkdirStep that dumps the record before the empty-workdir return.
WorkdirStepDumps ==
  /\ pc = "workdir"
  /\ LET w == RepoAt(req.dir).workdir IN
       IF Len(w) = 0
       THEN Return /\ RespDump /\ UNCHANGED strm
       ELSE /\ RespPrint(Field("workdir", StripSlash(w)))
            /\ Goto(NextStmt("workdir"))
            /\ UNCHANGED <<out, done>>
  /\ UNCHANGED <<opts, log, guards, reqvars, refvars, tagvars, statvars,
                 ldvars>>

\* workdir = git_repository_workdir(...) ?: ""; the empty-workdir return;
\* the trailing slash is stripped; resp.Print(workdir).
WorkdirStep ==
  /\ pc = "workdir"
  /\ LET w == RepoAt(req.dir).workdir IN
       IF Len(w) = 0
       THEN Return /\ UNCHANGED strm
       ELSE /\ RespPrint(Field("workdir", StripSlash(w)))
            /\ Goto(NextStmt("workdir"))
  /\ UNCHANGED <<opts, out, log, guards, reqvars, done, refvars, tagvars,
                 statvars, ldvars>>

\* resp.Print(head_target ? git_oid_tostr_s(head_target) : "").
CommitStep ==
  /\ pc = "commit"
  /\ RespPrint(Field("commit", IF head_target # NoOid THEN OidToStr(head_target) ELSE ""))
  /\ Goto(NextStmt("commit"))
  /\ UNCHANGED <<opts, out, log, guards, reqvars, done, refvars, tagvars,
                 statvars, ldvars>>

\* A statement that prints what a collaborator returns, or lets it throw.
PrintCall(at, name, vals, mayThrow) ==
  /\ pc = at
  /\ \/ /\ \E v \in vals : RespPrint(Field(name, v))
        /\ Goto(NextStmt(at))
     \/ /\ mayThrow
        /\ Throw
        /\ UNCHANGED strm
  /\ UNCHANGED <<opts, out, log, guards, reqvars, done, refvars, tagvars,
                 statvars, ldvars>>

\* resp.Print(LocalBranchName(head)).
BranchStep == PrintCall("branch", "local_branch", BranchNames, TRUE)

\* git_reference* upstream = Upstream(head); its guard.
UpstreamStep ==
  /\ pc = "upstream"
  /\ \/ /\ RepoAt(req.dir).upstream
        /\ upstream' = "held"
        /\ acquired' = [acquired EXCEPT !["upstream"] = @ + 1]
        /\ guards' = Append(guards, "upstream")
        /\ Goto(NextStmt("upstream"))
     \/ /\ ~RepoAt(req.dir).upstream
        /\ upstream' = "null"
        /\ guards' = Append(guards, "upstream")
        /\ Goto(NextStmt("upstream"))
        /\ UNCHANGED acquired
     \/ /\ Throw
        /\ UNCHANGED <<upstream, acquired, guards>>
  /\ UNCHANGED <<opts, out, log, reqvars, respvars, head, head_target, freed,
                 tagvars, statvars, ldvars>>

\* resp.Print(upstream ? RemoteBranchName(repo->repo(), upstream) : "").
UpNameStep ==
  PrintCall("upname", "upstream_branch",
            IF upstream = "held" THEN RemoteBranchNames ELSE {""}, upstream = "held")

\* resp.Print(upstream ? RemoteUrl(repo->repo(), upstream) : "").
UrlStep ==
  PrintCall("url", "remote_url",
            IF upstream = "held" THEN RemoteUrls ELSE {""}, upstream = "held")

\* resp.Print(RepoState(repo->repo())).
StateStep == PrintCall("state", "repo_state", RepoStates, TRUE)

\* PrintStatsStep with has_staged and has_unstaged printed in each other's
\* place.
PrintStatsStepSwapped ==
  /\ pc = "pstats"
  /\ strm' = strm \o << Field("has_staged", stats.has_unstaged),
                        Field("has_unstaged", stats.has_staged),
                        Field("has_untracked", stats.has_untracked) >>
  /\ Goto(NextStmt("pstats"))
  /\ UNCHANGED <<opts, out, log, guards, reqvars, done, refvars, tagvars,
                 statvars, ldvars>>

\* resp.Print(stats.has_staged); ...has_unstaged; ...has_untracked.
PrintStatsStep ==
  /\ pc = "pstats"
  /\ strm' = strm \o << Field("has_staged", stats.has_staged),
                        Field("has_unstaged", stats.has_unstaged),
                        Field("has_untracked", stats.has_untracked) >>
  /\ Goto(NextStmt("pstats"))
  /\ UNCHANGED <<opts, out, log, guards, reqvars, done, refvars, tagvars,
                 statvars, ldvars>>

\* AheadStep that counts HEAD..upstream, the range of the behind field.
AheadStepSwapped ==
  /\ pc = "ahead"
  /\ IF upstream = "held"
     THEN /\ counted' = Append(counted, <<"HEAD", "..", "upstream">>)
          /\ \/ /\ RespPrint(Field("ahead", CountRange(<<"HEAD", "..", "upstream">>)))
                /\ Goto(NextStmt("ahead"))
             \/ /\ Throw
                /\ UNCHANGED strm
     ELSE /\ RespPrint(Field("ahead", 0))
          /\ Goto(NextStmt("ahead"))
          /\ UNCHANGED counted
  /\ UNCHANGED <<opts, out, log, guards, reqvars, done, refvars, tagvars,
                 indexSize, stats, scanErr, ldvars>>

\* if (upstream) resp.Print(CountRange(upstream..HEAD)) else resp.Print(0).
AheadStep ==
  /\ pc = "ahead"
  /\ IF upstream = "held"
     THEN /\ counted' = Append(counted, <<"upstream", "..", "HEAD">>)
          /\ \/ /\ RespPrint(Field("ahead", CountRange(<<"upstream", "..", "HEAD">>)))
                /\ Goto(NextStmt("ahead"))
             \/ /\ Throw
                /\ UNCHANGED strm
     ELSE /\ RespPrint(Field("ahead", 0))
          /\ Goto(NextStmt("ahead"))
          /\ UNCHANGED counted
  /\ UNCHANGED <<opts, out, log, guards, reqvars, done, refvars, tagvars,
                 indexSize, stats, scanErr, ldvars>>

\* BehindStep whose else branch prints nothing: one 0 instead of two.
BehindStepNoElse ==
  /\ pc = "behind"
  /\ IF upstream = "held"
     THEN /\ counted' = Append(counted, <<"HEAD", "..", "upstream">>)
          /\ \/ /\ RespPrint(Field("behind", CountRange(<<"HEAD", "..", "upstream">>)))
                /\ Goto(NextStmt("behind"))
             \/ /\ Throw
                /\ UNCHANGED strm
     ELSE /\ UNCHANGED strm
          /\ Goto(NextStmt("behind"))
          /\ UNCHANGED counted
  /\ UNCHANGED <<opts, out, log, guards, reqvars, done, refvars, tagvars,
                 indexSize, stats, scanErr, ldvars>>

\* if (upstream) resp.Print(CountRange(HEAD..upstream)) else resp.Print(0).
BehindStep ==
  /\ pc = "behind"
  /\ IF upstream = "held"
     THEN /\ counted' = Append(counted, <<"HEAD", "..", "upstream">>)
          /\ \/ /\ RespPrint(Field("behind", CountRange(<<"HEAD", "..", "upstream">>)))
                /\ Goto(NextStmt("behind"))
             \/ /\ Throw
                /\ UNCHANGED strm
     ELSE /\ RespPrint(Field("behind", 0))
          /\ Goto(NextStmt("behind"))
          /\ UNCHANGED counted
  /\ UNCHANGED <<opts, out, log, guards, reqvars, done, refvars, tagvars,
                 indexSize, stats, scanErr, ldvars>>

\* resp.Print(NumStashes(repo->repo())).
StashStep == PrintCall("stashes", "num_stashes", StashCounts, TRUE)

\* resp.Print(tag.get()): blocks until the task has finished; get() hands
\* out the name or rethrows the task's exception and invalidates the future.
TagGetStep ==
  /\ pc = "tagget"
  /\ tagTask # "running"
  /\ tagValid' = FALSE
  /\ tagGets' = tagGets + 1
  /\ IF tagTask = "error"
     THEN Throw /\ UNCHANGED strm
     ELSE /\ RespPrint(Field("tag", tagResult))
          /\ Goto(NextStmt("tagget"))
  /\ UNCHANGED <<opts, out, log, guards, reqvars, done, refvars, tagTask,
                 tagWaits, tagResult, statvars, ldvars>>

\* resp.Dump("with git status"); the function body ends.
DumpStep ==
  /\ pc = "dump"
  /\ RespDump
  /\ Goto(NextStmt("dump"))
  /\ UNCHANGED <<opts, log, guards, reqvars, strm, refvars, tagvars, statvars,
                 ldvars>>

\* ------------------------------------------- scope guards and destructors

\* Unwinding that runs the guards in the order of their declaration.
UnwindingFifo(g) == /\ pc = "unwind"
                    /\ guards # << >>
                    /\ Head(guards) = g
                    /\ guards' = Tail(guards)

\* Leaving the scope runs the guards in the reverse order of declaration.
Unwinding(g) == /\ pc = "unwind"
                /\ guards # << >>
                /\ Last(guards) = g
                /\ guards' = Front(guards)

\* UpstreamGuard without the null test.
UpstreamGuardAlways ==
  /\ Unwinding("upstream")
  /\ upstream' = "freed"
  /\ freed' = [freed EXCEPT !["upstream"] = @ + 1]
  /\ UNCHANGED <<pc, opts, out, log, exc, reqvars, respvars, head,
                 head_target, acquired, tagvars, statvars, ldvars>>

\* ON_SCOPE_EXIT(=) { if (upstream) git_reference_free(upstream); }
UpstreamGuard ==
  /\ Unwinding("upstream")
  /\ IF upstream # "null"
     THEN /\ upstream' = "freed"
          /\ freed' = [freed EXCEPT !["upstream"] = @ + 1]
     ELSE UNCHANGED <<upstream, freed>>
  /\ UNCHANGED <<pc, opts, out, log, exc, reqvars, respvars, head,
                 head_target, acquired, tagvars, statvars, ldvars>>

\* TagGuard that tests the future but does not block on it.
TagGuardNoWait ==
  /\ Unwinding("tag")
  /\ UNCHANGED <<pc, opts, out, log, exc, reqvars, respvars, refvars,
                 tagvars, statvars, ldvars>>

\* TagGuard without the test of tag.valid().
TagGuardAlwaysWaits ==
  /\ Unwinding("tag")
  /\ tagTask # "running"
  /\ tagWaits' = tagWaits + 1
  /\ UNCHANGED <<pc, opts, out, log, exc, reqvars, respvars, refvars,
                 tagTask, tagValid, tagGets, tagResult, statvars, ldvars>>

\* ON_SCOPE_EXIT(&) { if (tag.valid()) { try { tag.wait(); } catch ... } }
TagGuard ==
  /\ Unwinding("tag")
  /\ IF tagValid
     THEN /\ tagTask # "running"         \* wait() blocks until it finished
          /\ tagWaits' = tagWaits + 1
     ELSE UNCHANGED tagWaits
  /\ UNCHANGED <<pc, opts, out, log, exc, reqvars, respvars, refvars,
                 tagTask, tagValid, tagGets, tagResult, statvars, ldvars>>

\* ON_SCOPE_EXIT(=) { git_reference_free(head); }
HeadGuard ==
  /\ Unwinding("head")
  /\ head' = "freed"
  /\ freed' = [freed EXCEPT !["head"] = @ + 1]
  /\ UNCHANGED <<pc, opts, out, log, exc, reqvars, respvars, head_target,
                 upstream, acquired, tagvars, statvars, ldvars>>

\* resp goes out of scope.
RespGuard ==
  /\ Unwinding("resp")
  /\ RespDtor
  /\ UNCHANGED <<pc, opts, log, exc, reqvars, refvars, tagvars, statvars,
                 ldvars>>

\* ON_SCOPE_EXIT(&) { timer.Report("request"); }
TimerGuard ==
  /\ Unwinding("timer")
  /\ UNCHANGED <<pc, opts, out, log, exc, reqvars, respvars, refvars,
                 tagvars, statvars, ldvars>>

\* ---------------------------------------------------------------- ListDir

\* name[i] of a NUL-terminated C string (i counts from 0).
CharAt(name, i) == IF i < Len(name) THEN name[i + 1] ELSE NUL

\* Dots(name): the name is "." or "..".
Dots(name) ==
  /\ CharAt(name, 0) = "."
  /\ \/ CharAt(name, 1) = NUL
     \/ CharAt(name, 1) = "." /\ CharAt(name, 2) = NUL

\* One entry appended: the type tag, the offset of the name pushed, the name,
\* two NULs.  ae is <<arena, entries>>.
AddEntry(ae, ent) ==
  IF Dots(ent.d_name) THEN ae
  ELSE << ae[1] \o <<ent.d_type>> \o ent.d_name \o <<NUL, NUL>>,
          Append(ae[2], Len(ae[1]) + 1) >>

\* The for loop over one batch of directory entries.
RECURSIVE AddEntries(_, _)
AddEntries(ae, batch) ==
  IF batch = << >> THEN ae
  ELSE AddEntries(AddEntry(ae, Head(batch)), Tail(batch))

\* open(dirname, O_RDONLY | O_DIRECTORY | ...) / opendir(dirname); the Linux
\* variant then clears arena and entries.
LdOpen ==
  /\ ld_pc = "open"
  /\ \/ /\ ld_ok' = FALSE                \* if (fd < 0) return false;
        /\ ld_pc' = "ret"
        /\ ld_err' = ld_err \cup {"open"}
        /\ UNCHANGED <<fds, arena, entries>>
     \/ /\ fds' = fds + 1
        /\ ld_pc' = "read"
        /\ arena' = IF opts.linux THEN << >> ELSE arena
        /\ entries' = IF opts.linux THEN << >> ELSE entries
        /\ UNCHANGED <<ld_ok, ld_err>>
  /\ UNCHANGED <<pc, opts, out, log, guards, exc, reqvars, respvars, refvars,
                 tagvars, statvars, dirleft, ldhist>>

\* LdGetdents with the descriptor left open when getdents64 fails.
LdGetdentsLeak ==
  /\ ld_pc = "read"
  /\ opts.linux
  /\ \/ /\ ld_ok' = FALSE
        /\ ld_pc' = "ret"
        /\ ld_err' = ld_err \cup {"read"}
        /\ UNCHANGED <<arena, entries, dirleft>>
     \/ /\ dirleft = << >>
        /\ ld_ok' = TRUE
        /\ ld_pc' = "close"
        /\ UNCHANGED <<arena, entries, dirleft, ld_err>>
     \/ \E k \in 1..Len(dirleft) :
          LET ae == AddEntries(<<arena, entries>>, SubSeq(dirleft, 1, k)) IN
          /\ arena' = ae[1]
          /\ entries' = ae[2]
          /\ dirleft' = SubSeq(dirleft, k + 1, Len(dirleft))
          /\ UNCHANGED <<ld_ok, ld_pc, ld_err>>
  /\ UNCHANGED <<pc, opts, out, log, guards, exc, reqvars, respvars, refvars,
                 tagvars, statvars, fds, ldhist>>

\* Linux: n = syscall(SYS_getdents64, ...) and the loop over the batch.
LdGetdents ==
  /\ ld_pc = "read"
  /\ opts.linux
  /\ \/ /\ ld_ok' = FALSE                \* if (n < 0) return false;
        /\ ld_pc' = "close"
        /\ ld_err' = ld_err \cup {"read"}
        /\ UNCHANGED <<arena, entries, dirleft>>
     \/ /\ dirleft = << >>               \* if (n == 0) return true;
        /\ ld_ok' = TRUE
        /\ ld_pc' = "close"
        /\ UNCHANGED <<arena, entries, dirleft, ld_err>>
     \/ \E k \in 1..Len(dirleft) :
          LET ae == AddEntries(<<arena, entries>>, SubSeq(dirleft, 1, k)) IN
          /\ arena' = ae[1]
          /\ entries' = ae[2]
          /\ dirleft' = SubSeq(dirleft, k + 1, Len(dirleft))
          /\ UNCHANGED <<ld_ok, ld_pc, ld_err>>
  /\ UNCHANGED <<pc, opts, out, log, guards, exc, reqvars, respvars, refvars,
                 tagvars, statvars, fds, ldhist>>

\* CHECK(cond) with cond false: a fatal assertion, the process aborts.
CheckFailed == pc' = "aborted"

\* Linux: ON_SCOPE_EXIT(&) { CHECK(!close(fd)); }
LdClose ==
  /\ ld_pc = "close"
  /\ opts.linux
  /\ fds' = fds - 1
  /\ ld_pc' = "ret"
  /\ \/ UNCHANGED <<pc, ld_err>>          \* close(fd) == 0
     \/ /\ CheckFailed                   \* close(fd) != 0
        /\ ld_err' = ld_err \cup {"close"}
  /\ UNCHANGED <<opts, out, log, guards, exc, reqvars, respvars, refvars,
                 tagvars, statvars, arena, entries, dirleft, ld_ok, ldhist>>

\* Portable: while (struct dirent* ent = readdir(dir)) { ... } return true;
\* readdir gives NULL at the end of the directory and on an error alike.
LdReaddir ==
  /\ ld_pc = "read"
  /\ ~opts.linux
  /\ \/ /\ dirleft = << >>               \* NULL: the end of the directory
        /\ ld_ok' = TRUE
        /\ ld_pc' = "close"
        /\ UNCHANGED <<arena, entries, dirleft, ld_err>>
     \/ /\ ld_ok' = TRUE                 \* NULL: readdir failed (errno set)
        /\ ld_pc' = "close"
        /\ ld_err' = ld_err \cup {"read"}
        /\ UNCHANGED <<arena, entries, dirleft>>
     \/ /\ dirleft # << >>
        /\ LET ae == AddEntry(<<arena, entries>>, Head(dirleft)) IN
           /\ arena' = ae[1]
           /\ entries' = ae[2]
        /\ dirleft' = Tail(dirleft)
        /\ UNCHANGED <<ld_ok, ld_pc, ld_err>>
  /\ UNCHANGED <<pc, opts, out, log, guards, exc, reqvars, respvars, refvars,
                 tagvars, statvars, fds, ldhist>>

\* Portable: ON_SCOPE_EXIT(&) { closedir(dir); }: the result is ignored.
\* (A close that reports an error has released the descriptor all the same.)
LdClosedir ==
  /\ ld_pc = "close"
  /\ ~opts.linux
  /\ fds' = fds - 1
  /\ ld_pc' = "ret"
  /\ \/ UNCHANGED ld_err                  \* closedir(dir) == 0
     \/ ld_err' = ld_err \cup {"close"}   \* closedir(dir) != 0
  /\ UNCHANGED <<pc, opts, out, log, guards, exc, reqvars, respvars, refvars,
                 tagvars, statvars, arena, entries, dirleft, ld_ok, ldhist>>

\* ---------------------------------------------------------- GetIndexStats

\* The NUL-terminated string that starts at arena[i] (i counts from 1).
RECURSIVE CStr(_, _)
CStr(ar, i) == IF i > Len(ar) \/ ar[i] = NUL THEN << >>
               ELSE <<ar[i]>> \o CStr(ar, i + 1)

\* The names a listing holds.
ListedNames(ar, en) == { CStr(ar, en[i] + 1) : i \in 1..Len(en) }

\* The paths of an index of n entries.
IndexNames(n) == { [j \in 1..i |-> "a"] : i \in 1..n }

\* repo->GetIndexStats(head_target, dirty_max_index_size): an index larger
\* than the limit gets no working-tree scan; otherwise the diff engine
\* stats the tracked files and lists the directory.
GetIndexStats(repo, oid, dirty_max_index_size) ==
  \/ /\ Throw
     /\ UNCHANGED <<statvars, ldvars>>
  \/ /\ indexSize' = repo.index_size
     /\ UNCHANGED counted
     /\ IF repo.index_size > dirty_max_index_size
        THEN /\ stats' = [has_staged |-> repo.staged, has_unstaged |-> -1,
                          has_untracked |-> -1]
             /\ Goto(NextStmt("stats"))
             /\ UNCHANGED <<scanErr, ldvars>>
        ELSE \E un \in {repo.unstaged, -1} :   \* -1: a stat failed
               /\ stats' = [has_staged |-> repo.staged, has_unstaged |-> un,
                            has_untracked |-> 0]
               /\ scanErr' = IF un = repo.unstaged THEN {} ELSE {"stat"}
               /\ pc' = "listdir"
               /\ exc' = FALSE
               /\ ld_pc' = "open"
               /\ dirleft' = repo.dir
               /\ ld_dir' = repo.dir
               /\ ld_err' = {}
               /\ arena' = << >>
               /\ entries' = << >>
               /\ UNCHANGED <<fds, ld_ok, ld_calls, ld_first>>

\* const IndexStats stats = repo->GetIndexStats(head_target, opts....);
StatsStep ==
  /\ pc = "stats"
  /\ GetIndexStats(RepoAt(req.dir), head_target, opts.dirty_max_index_size)
  /\ UNCHANGED <<opts, out, log, guards, reqvars, respvars, refvars, tagvars>>

\* ListDir returned to the scan: a failed listing leaves untracked unknown.
StatsListed ==
  /\ pc = "listdir"
  /\ ld_pc = "ret"
  /\ stats' = [stats EXCEPT !.has_untracked =
                 IF ~ld_ok THEN -1
                 ELSE IF ListedNames(arena, entries) \subseteq IndexNames(indexSize)
                      THEN 0 ELSE 1]
  /\ scanErr' = IF ld_ok THEN scanErr ELSE scanErr \cup {"listdir"}
  /\ Goto(NextStmt("stats"))
  /\ ld_pc' = "idle"
  /\ arena' = << >>
  /\ entries' = << >>
  /\ dirleft' = << >>
  /\ ld_ok' = FALSE
  /\ ld_dir' = << >>
  /\ ld_err' = {}
  /\ UNCHANGED <<opts, out, log, guards, reqvars, respvars, refvars, tagvars,
                 indexSize, counted, fds, ld_calls, ld_first>>

\* ------------------------------------------------------------------ Spec

Next ==
  \/ ReadRequestOk \/ ReadRequestParseError \/ ReadRequestParentDeath
  \/ OpenStep \/ HeadStep \/ TagStep \/ TagTaskRun
  \/ WorkdirStep \/ CommitStep \/ BranchStep \/ UpstreamStep \/ UpNameStep
  \/ UrlStep \/ StateStep \/ StatsStep \/ StatsListed \/ PrintStatsStep
  \/ AheadStep \/ BehindStep \/ StashStep \/ TagGetStep \/ DumpStep
  \/ UpstreamGuard \/ TagGuard \/ HeadGuard \/ RespGuard \/ TimerGuard
  \/ ReturnToLoop
  \/ LdOpen \/ LdGetdents \/ LdClose \/ LdReaddir \/ LdClosedir

Spec == Init /\ [][Next]_vars

\* ------------------------------------------------- ListDir on its own
\* ListDir called by a caller that owns one arena and one entries vector and
\* lists an unchanged directory with them, up to MaxListCalls times: the
\* directory's entries, the build and every system call's outcome vary.

\* Names a directory may hold: ".", "..", names that only start with dots
\* (".a", "...", "..a") and a plain name.
TestNames ==
  { <<".">>, <<".", ".">>, <<".", "a">>, <<".", ".", ".">>,
    <<".", ".", "a">>, <<"a">> }

\* The d_type the file system reports for each name.
TypeOf(name) ==
  IF name \in {<<".">>, <<".", ".">>, <<".", ".", "a">>} THEN "DT_DIR"
  ELSE IF name = <<".", ".", ".">> THEN "DT_LNK"
  ELSE IF name = <<"a">> THEN "DT_UNKNOWN"
  ELSE "DT_REG"

\* A directory: at most MaxDirLen entries in the order the kernel returns
\* them, no name twice.
TestDirs ==
  UNION { { [i \in 1..n |-> Dirent(TypeOf(f[i]), f[i])] :
            f \in { g \in [1..n -> TestNames] :
                      \A i, j \in 1..n : i # j => g[i] # g[j] } } :
          n \in 0..MaxDirLen }

InitListDir ==
  /\ pc = "caller"
  /\ opts \in [dirty_max_index_size : {0}, linux : BOOLEAN]
  /\ nread = 0
  /\ req = [id |-> 0, dir |-> NoRepo]
  /\ parsed = << >>
  /\ out = << >>
  /\ log = << >>
  /\ strm = << >>
  /\ done = FALSE
  /\ guards = << >>
  /\ exc = FALSE
  /\ head = "null"
  /\ head_target = NoOid
  /\ upstream = "null"
  /\ acquired = NoRefs
  /\ freed = NoRefs
  /\ tagTask = "none"
  /\ tagValid = FALSE
  /\ tagWaits = 0
  /\ tagGets = 0
  /\ tagResult = ""
  /\ indexSize = -1
  /\ stats = NoStats
  /\ scanErr = {}
  /\ counted = << >>
  /\ fds = 0
  /\ arena = << >>
  /\ entries = << >>
  /\ ld_ok = FALSE
  /\ ld_err = {}
  /\ ld_first = << >>
  /\ ld_calls = 1
  /\ ld_pc = "open"
  /\ ld_dir \in TestDirs
  /\ dirleft = ld_dir

\* The caller lists the same directory again with the same arena and entries.
LdAgain ==
  /\ pc = "caller"
  /\ ld_pc = "ret"
  /\ ld_ok
  /\ ld_calls < MaxListCalls
  /\ ld_calls' = ld_calls + 1
  /\ ld_first' = <<arena, entries>>
  /\ ld_pc' = "open"
  /\ dirleft' = ld_dir
  /\ ld_err' = {}
  /\ UNCHANGED <<pc, opts, out, log, guards, exc, reqvars, respvars, refvars,
                 tagvars, statvars, fds, arena, entries, ld_ok, ld_dir>>

NextListDir ==
  \/ LdOpen \/ LdGetdents \/ LdClose \/ LdReaddir \/ LdClosedir
  \/ LdAgain

SpecListDir == InitListDir /\ [][NextListDir]_vars

\* ---------------------------------------------------------------- claims

Range(s) == { s[i] : i \in DOMAIN s }
RecId(r) == FieldVal(r[1])
IsRepo(r) == FieldVal(r[2])
FailRecord(id) == << Field("id", id), Field("is_repo", "0") >>
Returning == pc = "unwind" /\ guards = << >>
RecordsOf(id) == { i \in DOMAIN out : RecId(out[i]) = id }

\* C1: processing is strictly serial: whenever the loop is about to read a
\* request, the previous request is fully over (no scope guard pending, no
\* reference held, its tag task finished, no directory listing under way),
\* and the records on the output carry the ids of requests that were read,
\* in the order they were read.
C1_SerialInOrder ==
  /\ pc = "read" =>
       /\ guards = << >>
       /\ tagTask # "running"
       /\ ~tagValid
       /\ ld_pc = "idle"
  /\ \A i \in DOMAIN out :
       /\ RecId(out[i]) \in Range(parsed)
       /\ \A j \in DOMAIN out : i < j => RecId(out[i]) < RecId(out[j])

C1_Witness == pc = "read" /\ Len(out) >= 2 /\ nread >= 2

\* C2: once the tag guard has run, and so when ProcessRequest hands control
\* back to the loop and when the next request is read, the tag task is not
\* running any more.
C2_TagFinishedOnExit ==
  (pc = "read" \/ (pc = "unwind" /\ "tag" \notin Range(guards)))
    => tagTask # "running"

C2_Witness == Returning /\ ~exc /\ ~done /\ tagWaits = 1

\* C3: no error terminates the daemon.
C3_NoErrorTerminates == pc # "aborted"

\* C4: every parsed request whose ProcessRequest has ended has exactly one
\* record on the output, and no request ever has two.
C4_OneRecordPerRequest ==
  \A k \in DOMAIN parsed :
    /\ Cardinality(RecordsOf(parsed[k])) <= 1
    /\ (k < Len(parsed) \/ pc = "read" \/ pc = "exited" \/ Returning)
         => Cardinality(RecordsOf(parsed[k])) = 1

C4_Witness == Returning /\ exc /\ Len(strm) > 2 /\ Len(out) = Len(parsed)

\* C5: when ProcessRequest returns to the loop without having computed all
\* the fields (an early return or an exception), the record written for the
\* request is its id and is_repo = "0" and nothing else, whatever had been
\* buffered; and the exception is logged as an error.
C5_FailureRecord ==
  [][ (Returning /\ pc' = "read") =>
        /\ (exc \/ Len(strm) < Len(FieldOrder)) =>
              /\ out # << >>
              /\ Last(out) = FailRecord(req.id)
              /\ out' = out
        /\ exc => Last(log') = <<"ERROR", "Error processing request", req.id>>
    ]_vars

C5_Witness ==
  /\ Returning /\ exc /\ Len(strm) > 3
  /\ Last(out) = FailRecord(req.id)

\* C6: an input record that did not parse is logged and dropped: it has no
\* record on the output, ProcessRequest never started for it, and the loop
\* is back at reading.
C6_ParseErrorDropped ==
  \A k \in 1..nread :
    k \notin Range(parsed) =>
      /\ RecordsOf(k) = {}
      /\ <<"ERROR", "parse error", k>> \in Range(log)
      /\ <<"INFO", "Processing request", k>> \notin Range(log)
      /\ k = nread => pc \in {"read", "exited"}

C6_Witness == nread = 2 /\ parsed = <<2>> /\ Len(out) = 1 /\ pc = "read"

\* C7: buffering a field writes nothing; the output only ever grows by one
\* whole record, and a record with is_repo = "1" is the complete buffer,
\* written after tag.get() delivered the last field.
C7_AtomicRecord ==
  [][ /\ strm' # strm => out' = out
      /\ out' # out =>
           /\ out' = Append(out, Last(out'))
           /\ IF IsRepo(Last(out')) = "1"
              THEN /\ Last(out') = strm
                   /\ Len(strm) = Len(FieldOrder)
                   /\ FieldName(Last(strm)) = "tag"
                   /\ tagGets = 1
                   /\ ~tagValid
              ELSE Last(out') = FailRecord(req.id)
    ]_vars

C7_Witness == pc = "unwind" /\ done /\ Len(Last(out)) = Len(FieldOrder)

\* C8: a record with is_repo = "1" has exactly the 15 fields of the response
\* format, in its order, with and without an upstream.
C8_FieldOrder ==
  \A i \in DOMAIN out :
    IsRepo(out[i]) = "1" =>
      /\ Len(out[i]) = 15
      /\ \A j \in 1..15 : FieldName(out[i][j]) = FieldOrder[j]

C8_Witness ==
  /\ \E i \in DOMAIN out : IsRepo(out[i]) = "1" /\ FieldVal(out[i][6]) = ""
  /\ \E i \in DOMAIN out : IsRepo(out[i]) = "1" /\ FieldVal(out[i][6]) # ""

\* C9: a reference is freed only if it was acquired and at most once, and
\* when ProcessRequest returns every acquired reference has been freed.
C9_RefsReleased ==
  \A r \in {"head", "upstream"} :
    /\ acquired[r] <= 1
    /\ freed[r] <= acquired[r]
    /\ Returning => /\ freed[r] = acquired[r]
                    /\ head # "held"
                    /\ upstream # "held"

C9_Witness == Returning /\ exc /\ freed["head"] = 1 /\ freed["upstream"] = 1

LdReturned == ld_pc = "ret" /\ pc # "aborted"
LdSucceeded == LdReturned /\ ld_ok

\* The entries this call read from the directory, "." and ".." left out.
ListedEnts ==
  SelectSeq(SubSeq(ld_dir, 1, Len(ld_dir) - Len(dirleft)),
            LAMBDA e : e.d_name # <<".">> /\ e.d_name # <<".", ".">>)

\* One type-tag byte, the name bytes and two NULs per entry.
RECURSIVE Packed(_)
Packed(ents) ==
  IF ents = << >> THEN << >>
  ELSE <<Head(ents).d_type>> \o Head(ents).d_name \o <<NUL, NUL>>
       \o Packed(Tail(ents))

\* C11: after a successful ListDir the arena is the concatenation, per listed
\* entry, of one type-tag byte, the name bytes and two NUL bytes; entries[i]
\* is the arena offset of the first name byte of the i-th entry, so the
\* offsets strictly increase, the byte before offset entries[i] is the i-th
\* type tag and entries[i+1] = entries[i] + len(name_i) + 3.
\* (Offset k of the arena is element k + 1 of the sequence.)
C11_ArenaLayout ==
  LdSucceeded =>
    /\ arena = Packed(ListedEnts)
    /\ Len(entries) = Len(ListedEnts)
    /\ \A i \in DOMAIN entries :
         /\ entries[i] \in 1..(Len(arena) - 1)
         /\ arena[entries[i]] = ListedEnts[i].d_type
         /\ CStr(arena, entries[i] + 1) = ListedEnts[i].d_name
         /\ i < Len(entries) =>
              /\ entries[i] < entries[i + 1]
              /\ entries[i + 1] = entries[i] + Len(ListedEnts[i].d_name) + 3

\* How many entries of the listing carry the name.
TimesListed(name) ==
  Cardinality({ i \in DOMAIN entries : CStr(arena, entries[i] + 1) = name })

\* The names of the directory's immediate children.
Children == { ld_dir[i].d_name : i \in DOMAIN ld_dir }

\* C12: a successful ListDir lists each immediate child of the directory
\* exactly once, over all batches, except that "." and ".." are left out;
\* every other name, those that merely start with a dot included (".a",
\* "...", "..a"), is kept, and nothing else is listed.
C12_EachChildOnce ==
  LdSucceeded =>
    \A name \in TestNames :
      TimesListed(name) =
        IF name \in Children \ {<<".">>, <<".", ".">>} THEN 1 ELSE 0

\* C13: the descriptor ListDir opens is closed before ListDir returns, on
\* every return path (the end of the directory, a failed directory read in
\* any iteration); no descriptor is closed when the open failed: as many
\* descriptors are open after ListDir as before it (none), one while the
\* directory is read, and never fewer than before.
C13_DescriptorClosed ==
  /\ fds \in {0, 1}
  /\ ld_pc \in {"idle", "open", "ret"} => fds = 0
  /\ ld_pc \in {"read", "close"} => fds = 1

\* A directory read fails after a first batch was listed, and ListDir has
\* returned with the descriptor closed.
C13_Witness ==
  /\ LdReturned /\ ~ld_ok
  /\ ld_err = {"read"}
  /\ entries # << >>
  /\ fds = 0

\* C14: ListDir returns failure to its caller whenever one of its system
\* calls failed (the open, a directory read in any iteration, the close),
\* and reports success only when every system call succeeded.
C14_FailsOnSyscallFailure ==
  ld_pc = "ret" =>
    /\ ld_err # {} => LdReturned /\ ~ld_ok
    /\ LdSucceeded => ld_err = {}

\* C19: the result of a successful ListDir depends only on the directory's
\* contents, not on what arena and entries held before: a second successful
\* call on the unchanged directory with the same arena and entries leaves
\* them as the first successful call did, in the getdents64 variant and in
\* the readdir variant.
C19_Idempotent ==
  LdSucceeded /\ ld_calls > 1 => <<arena, entries>> = ld_first

\* ------------------------------------------------ the response's fields

\* The record of the request being processed has been emitted.
Emitted == pc = "unwind" /\ done /\ IsRepo(Last(out)) = "1"

\* C15: the workdir field is the library's path with its trailing slash
\* stripped, except for the root directory: the emitted workdir is "/" or
\* does not end in "/", and is never empty; a repository whose workdir is
\* empty or absent yields no successful response.
C15_WorkdirStripped ==
  /\ \A i \in DOMAIN out :
       IsRepo(out[i]) = "1" =>
         LET w == FieldVal(out[i][3]) IN
         /\ w # << >>
         /\ w = <<"/">> \/ Last(w) # "/"
  /\ Emitted =>
       LET lib == RepoAt(req.dir).workdir IN
       /\ lib # NoPath
       /\ FieldVal(Last(out)[3]) = IF lib = <<"/">> THEN lib ELSE Front(lib)

\* One response for a repository at the root directory and one for a
\* repository below it.
C15_Witness ==
  /\ Emitted
  /\ \E i \in DOMAIN out : IsRepo(out[i]) = "1" /\ FieldVal(out[i][3]) = <<"/">>
  /\ \E i \in DOMAIN out : IsRepo(out[i]) = "1" /\ FieldVal(out[i][3]) = <<"/", "r">>

\* C16: when HEAD has no upstream, upstream_branch and remote_url are "",
\* ahead and behind are 0 and no commit range is counted; when it has one,
\* ahead is the count of upstream..HEAD and behind the count of
\* HEAD..upstream, counted and emitted in that order.
C16_UpstreamFields ==
  /\ req.dir # NoRepo /\ ~RepoAt(req.dir).upstream => counted = << >>
  /\ Emitted =>
       LET r == Last(out) IN
       IF RepoAt(req.dir).upstream
       THEN /\ FieldVal(r[6]) # ""
            /\ FieldVal(r[12]) = CountRange(<<"upstream", "..", "HEAD">>)
            /\ FieldVal(r[13]) = CountRange(<<"HEAD", "..", "upstream">>)
            /\ counted = << <<"upstream", "..", "HEAD">>,
                            <<"HEAD", "..", "upstream">> >>
       ELSE /\ FieldVal(r[6]) = ""
            /\ FieldVal(r[7]) = ""
            /\ FieldVal(r[12]) = 0
            /\ FieldVal(r[13]) = 0
            /\ counted = << >>

\* One response for a HEAD without an upstream and one for a HEAD with one.
C16_Witness ==
  /\ Emitted
  /\ \E i \in DOMAIN out : IsRepo(out[i]) = "1" /\ FieldVal(out[i][12]) = 0
  /\ \E i \in DOMAIN out : IsRepo(out[i]) = "1" /\ FieldVal(out[i][12]) = 2

\* ------------------------------------------------------- the tag future

\* C17: the tag lookup overlaps the working-tree scan: GetTagName has been
\* started when GetIndexStats is called, and the request thread does not
\* block on the tag before GetIndexStats, the ahead and behind counts and
\* the stash count have completed: when tag.get() is called the fields up
\* to num_stashes are all computed, so the tag is the last field computed.
C17_TagOverlapsScan ==
  /\ indexSize # -1 => tagTask # "none"
  /\ pc \in {"stats", "listdir", "pstats", "ahead", "behind", "stashes",
              "tagget"} =>
       /\ tagTask # "none"
       /\ tagValid
       /\ tagGets = 0
       /\ tagWaits = 0
  /\ tagGets > 0 =>
       /\ indexSize # -1
       /\ Len(strm) >= 14
       /\ \A j \in 1..14 : FieldName(strm[j]) = FieldOrder[j]
       /\ Len(strm) > 14 => FieldName(Last(strm)) = "tag" /\ Len(strm) = 15

\* tag.get() has returned the tag after a scan that listed the directory
\* and two range counts.
C17_Witness ==
  /\ pc = "dump"
  /\ tagGets = 1
  /\ Len(strm) = 15
  /\ indexSize <= opts.dirty_max_index_size
  /\ Len(counted) = 2

\* C18: on every exit path after the tag future exists, the tag task has
\* finished before the HEAD reference is freed: the guards run in the
\* reverse order of their declaration (upstream free, tag wait, HEAD free),
\* so HEAD is held as long as the task runs or a later guard is pending.
C18_TagDoneBeforeHeadFreed ==
  /\ tagTask = "running" => head = "held"
  /\ head = "freed" =>
       /\ tagTask # "running"
       /\ \A i \in DOMAIN guards : guards[i] \notin {"tag", "upstream"}
  /\ \A i \in DOMAIN guards :
       guards[i] = "upstream" => i > 1 /\ guards[i - 1] = "tag"

\* An exceptional exit that freed the upstream, waited for the tag task
\* and then freed HEAD.
C18_Witness ==
  /\ pc = "unwind" /\ exc
  /\ upstream = "freed"
  /\ tagWaits = 1
  /\ head = "freed"

\* C20: the tag future is consumed at most once per request and never
\* waited on after it was consumed: tag.get() invalidates the future and
\* the guard then skips the wait; on every path that leaves ProcessRequest
\* before tag.get() the guard waits exactly once on the still valid future.
C20_TagConsumedOnce ==
  /\ tagGets <= 1
  /\ tagWaits <= 1
  /\ tagGets + tagWaits <= 1
  /\ tagGets = 1 <=> tagTask # "none" /\ ~tagValid
  /\ tagWaits = 1 => tagValid
  /\ Returning =>
       IF tagTask = "none" THEN tagGets + tagWaits = 0
       ELSE /\ tagGets + tagWaits = 1
            /\ tagGets = 0 => tagValid

\* A request whose tag.get() rethrew the task's exception: the future was
\* consumed and the guard did not wait.
C20_Witness ==
  /\ Returning /\ exc
  /\ tagTask = "error"
  /\ tagGets = 1
  /\ tagWaits = 0

====
